---------------------------- MODULE Spec2Model ----------------------------
(***************************************************************************)
(* ISS pass predictor (src/main.py): the two-phase visibility-window       *)
(* search of ISSPassPredictor (calculate_passes, refine_pass_data), its    *)
(* accuracy model (estimate_accuracy) and the worker thread that           *)
(* start_prediction launches (run_prediction).                             *)
(*                                                                         *)
(* Time is in whole seconds on an absolute axis.  Distances are whole      *)
(* kilometres.  A rational number is a pair <<numerator, denominator>>     *)
(* with a positive denominator.  Python's None is the empty sequence and   *)
(* a value v that may be None is the one-element sequence <<v>>.           *)
(***************************************************************************)
EXTENDS Integers, Sequences, FiniteSets

VARIABLES
    \* the environment: the Skyfield propagator, the CelesTrak TLE and the clock
    propagator,      \* [dips, fail_at]: the distance function of the satellite
    src_epoch,       \* epoch of the TLE that CelesTrak serves
    clock,           \* last reading of the wall clock (ts.now()), None before the first
    \* ISSPassPredictor fields and widgets
    years_var,       \* content of the years entry
    update_btn,      \* state of the update button: "normal" | "disabled"
    progress,        \* progress bar: "stopped" | "running"
    status_label,    \* text of the status label (abstracted to a tag)
    tle_epoch,       \* self.tle_epoch, None until fetch_tle succeeds
    last_results,    \* self.last_results, absent until a run completes
    \* the worker thread (run_prediction, calculate_passes)
    pc,              \* position of the worker
    years,           \* argument of run_prediction (as the horizon in seconds)
    start_time,      \* calculate_passes: start_time
    end_time,        \* calculate_passes: end_dt
    current,         \* calculate_passes: current
    in_window,       \* calculate_passes: in_window
    window_start,    \* calculate_passes: window_start
    passes,          \* calculate_passes: passes
    \* history
    windows,         \* windows handed to refine_pass_data by the current call
    returned,        \* what each completed calculate_passes call returned
    \* direct calls of the two pure methods
    refined,         \* result of a direct refine_pass_data call
    acc_d,           \* argument of the last estimate_accuracy call, in steps of 1/AccDen day
    acc_prev,        \* result of the estimate_accuracy call before the last
    acc_cur          \* result of the last estimate_accuracy call

env_vars == <<propagator, src_epoch, clock>>
gui_vars == <<years_var, update_btn, progress, status_label, tle_epoch, last_results>>
calc_vars == <<start_time, end_time, current, in_window, window_start, passes, windows>>
pure_vars == <<refined, acc_d, acc_prev, acc_cur>>
vars == <<env_vars, gui_vars, calc_vars, pc, years, returned, pure_vars>>

None == <<>>

Some(v) == <<v>>

Abs(x) == IF x < 0 THEN -x ELSE x

-----------------------------------------------------------------------------
(* Program constants *)

max_distance_km == 1000

CoarseStep == 60

FinePad == 60

FineStep == 1

SecondsPerDay == 86400

MaxYears == 10

\* timedelta(days=365*years): one year of horizon in seconds
SecondsPerYear == 365 * SecondsPerDay

-----------------------------------------------------------------------------
(* Bounds of the model *)

\* the horizon (365*years days) of a valid years entry, in seconds
Horizon == 900

\* distance of the satellite away from every dip, km
FarKm == 5000

\* height of the orbit used by the synthetic elevation angle, km
OrbitKm == 420

\* estimate_accuracy is swept up to this many days
MaxDays == 200

\* resolution of the estimate_accuracy sweep: steps per day
AccDen == 2

-----------------------------------------------------------------------------
(* The propagator: satellite.at(t) - location.at(t), then altaz().         *)
(* Its distance is the lower envelope of V-shaped dips                     *)
(* base + slope * |t - t0|, and FarKm away from them.  fail_at is an       *)
(* instant at which the propagator raises, or None.                        *)

DipTimes == {120, 230, 300, 700, 860}

DipShapes == {<<500, 5>>, <<1000, 5>>, <<900, 50>>, <<100, 20>>}

DipSet == {[t0 |-> t, base |-> s[1], slope |-> s[2]] : t \in DipTimes, s \in DipShapes}

\* the instant at which a failing propagator raises
FailTimes == {330}

Propagators ==
    {[dips |-> D, fail_at |-> None] : D \in {S \in SUBSET DipSet : Cardinality(S) <= 2}}
    \cup {[dips |-> D, fail_at |-> Some(f)] : D \in {S \in SUBSET DipSet : Cardinality(S) <= 1}, f \in FailTimes}

DipDist(d, t) == d.base + d.slope * Abs(t - d.t0)

MinOf(S) == CHOOSE x \in S : \A y \in S : x <= y

\* distance.km at instant t
Dist(p, t) == MinOf({DipDist(d, t) : d \in p.dips} \cup {FarKm})

\* alt.degrees of a sample whose distance.km is dist_km: the elevation falls
\* with the slant range
AltDeg(dist_km) == IF dist_km <= OrbitKm THEN 90 ELSE (90 * OrbitKm) \div dist_km

\* the propagator raises at instant t
Fails(p, t) == p.fail_at = Some(t)

-----------------------------------------------------------------------------
(* estimate_accuracy(days_from_epoch), days_from_epoch = num / den *)

RatLeq(a, b) == a[1] * b[2] <= b[1] * a[2]

RatEq(a, b) == a[1] * b[2] = b[1] * a[2]

\* the third branch divides by 30 where the tier is 23 days long
TierError_typo(k, num, den) ==
    CASE k = 1 -> <<3 * den + 4 * num, 3 * den>>
      [] k = 2 -> <<5 * 4 * den + 15 * (num - 3 * den), 4 * den>>
      [] k = 3 -> <<20 * 30 * den + 80 * (num - 7 * den), 30 * den>>
      [] k = 4 -> <<100 * 60 * den + 400 * (num - 30 * den), 60 * den>>
      [] k = 5 -> <<500 * 90 * den + 500 * (num - 90 * den), 90 * den>>
      [] k = 6 -> <<1000 * (180 * den + (num - 180 * den)), 180 * den>>

\* the error formula of branch k of estimate_accuracy, as an exact rational
TierError(k, num, den) ==
    CASE k = 1 -> <<3 * den + 4 * num, 3 * den>>
      [] k = 2 -> <<5 * 4 * den + 15 * (num - 3 * den), 4 * den>>
      [] k = 3 -> <<20 * 23 * den + 80 * (num - 7 * den), 23 * den>>
      [] k = 4 -> <<100 * 60 * den + 400 * (num - 30 * den), 60 * den>>
      [] k = 5 -> <<500 * 90 * den + 500 * (num - 90 * den), 90 * den>>
      [] k = 6 -> <<1000 * (180 * den + (num - 180 * den)), 180 * den>>

TierLabel(k) ==
    CASE k = 1 -> "EXCELLENT"
      [] k = 2 -> "VERY GOOD"
      [] k = 3 -> "GOOD"
      [] k = 4 -> "MODERATE"
      [] k = 5 -> "POOR"
      [] k = 6 -> "VERY POOR"

\* the branch that the if/elif chain takes
TierOf(num, den) ==
    IF num <= 3 * den THEN 1
    ELSE IF num <= 7 * den THEN 2
    ELSE IF num <= 30 * den THEN 3
    ELSE IF num <= 90 * den THEN 4
    ELSE IF num <= 180 * den THEN 5
    ELSE 6

estimate_accuracy(num, den) ==
    [error |-> TierError(TierOf(num, den), num, den),
     reliability |-> TierLabel(TierOf(num, den))]

-----------------------------------------------------------------------------
(* refine_pass_data: the fine scan of one coarse window *)

RECURSIVE ArgMinIn(_, _, _)
\* the first index of the smallest element of dl[lo..hi]
ArgMinIn(dl, lo, hi) ==
    IF lo = hi THEN lo
    ELSE LET mid == (lo + hi) \div 2
             a == ArgMinIn(dl, lo, mid)
             b == ArgMinIn(dl, mid + 1, hi)
         IN  IF dl[b] < dl[a] THEN b ELSE a

\* numpy argmin: the first index of the smallest element of dl
ArgMin(dl) == ArgMinIn(dl, 1, Len(dl))

RECURSIVE MaxIn(_, _, _)
\* numpy max: the largest element of al[lo..hi]
MaxIn(al, lo, hi) ==
    IF lo = hi THEN al[lo]
    ELSE LET mid == (lo + hi) \div 2
             a == MaxIn(al, lo, mid)
             b == MaxIn(al, mid + 1, hi)
         IN  IF b > a THEN b ELSE a

\* the fine scan without the buffer of one minute on each side
FineGrid_unpadded(start_t, end_t) ==
    [i \in 1..(end_t - start_t) |-> start_t + (i - 1) * FineStep]

\* the instants of times_list: t0, t0 + 1, ..., duration_seconds of them
FineGrid(start_t, end_t) ==
    LET t0 == start_t - FinePad
        t1 == end_t + FinePad
        duration_seconds == t1 - t0
    IN  [i \in 1..duration_seconds |-> t0 + (i - 1) * FineStep]

\* the closest approach is at or beyond the threshold
TooFar_atThreshold(min_distance) == min_distance >= max_distance_km

\* the check is missing
TooFar_never(min_distance) == FALSE

\* "If closest approach is still too far, ignore this pass"
TooFar(min_distance) == min_distance > max_distance_km

\* [raised |-> the call raises, value |-> the dict it returns, or None]
refine_pass_data(p, ep, start_t, end_t) ==
    LET times == FineGrid(start_t, end_t)
        n == Len(times)
        dist_km_list == SubSeq([i \in 1..n |-> Dist(p, times[i])], 1, n)
        min_dist_index == ArgMin(dist_km_list)
        min_distance == dist_km_list[min_dist_index]
        alts == [i \in 1..n |-> AltDeg(dist_km_list[i])]
        max_alt == MaxIn(alts, 1, Len(alts))
        closest_t == times[min_dist_index]
        duration_sec == Cardinality({i \in 1..n : dist_km_list[i] <= max_distance_km})
        acc == estimate_accuracy(closest_t - ep[1], SecondsPerDay)
    IN  IF \E i \in 1..n : Fails(p, times[i])
        THEN [raised |-> TRUE, value |-> None]
        ELSE IF TooFar(min_distance)
        THEN [raised |-> FALSE, value |-> None]
        ELSE IF ep = None
        THEN [raised |-> TRUE, value |-> None]
        ELSE [raised |-> FALSE,
              value |-> Some([start |-> start_t,
                              end |-> end_t,
                              closest_time |-> closest_t,
                              min_distance |-> min_distance,
                              max_altitude |-> max_alt,
                              duration |-> <<duration_sec, 60>>,
                              error_km |-> acc.error,
                              reliability |-> acc.reliability])]

-----------------------------------------------------------------------------
(* format_results: the header fields and one row per pass, numbered from 1 *)

format_results(ps, ep) ==
    [tle_epoch |-> ep[1],
     total |-> Len(ps),
     rows |-> [i \in 1..Len(ps) |->
                  <<i, ps[i].closest_time, ps[i].min_distance, ps[i].max_altitude,
                    ps[i].duration, ps[i].error_km, ps[i].reliability>>]]

-----------------------------------------------------------------------------
(* The inputs of the environment *)

\* what the user may type into the years entry: a text that is no number,
\* or a number of years, held as the horizon 365*years days in seconds
YearsEntries ==
    {[num |-> FALSE, secs |-> 0],
     [num |-> TRUE, secs |-> 0],
     [num |-> TRUE, secs |-> Horizon],
     [num |-> TRUE, secs |-> MaxYears * SecondsPerYear + 1]}

\* tk.StringVar(value="0.1")
DefaultYears == [num |-> TRUE, secs |-> SecondsPerYear \div 10]

\* the epoch of the served TLE: one hour and three and a half days old
Epochs == {-3600, -302400}

\* readings of the wall clock
NowChoices == {0, 30}

\* the clock moves on between two readings
Later(n, c) == IF c = None THEN TRUE ELSE n > c[1]

-----------------------------------------------------------------------------
(* The state after ISSPassPredictor.__init__ *)

InitObject ==
    /\ years_var = DefaultYears
    /\ update_btn = "normal"
    /\ progress = "stopped"
    /\ status_label = "ready"
    /\ tle_epoch = None
    /\ last_results = None
    /\ pc = "idle"
    /\ years = 0
    /\ start_time = 0
    /\ end_time = 0
    /\ current = 0
    /\ in_window = FALSE
    /\ window_start = None
    /\ passes = <<>>
    /\ windows = <<>>
    /\ returned = <<>>

InitPure ==
    /\ refined = None
    /\ acc_d = None
    /\ acc_prev = None
    /\ acc_cur = None

Init ==
    /\ propagator \in Propagators
    /\ src_epoch \in Epochs
    /\ clock = None
    /\ InitObject
    /\ InitPure

-----------------------------------------------------------------------------
(* start_prediction: the handler of the update button *)

\* float(self.years_var.get()) raises ValueError: an error dialog is shown and
\* dismissed, and nothing else changes
StartPredictionNotNumber ==
    /\ update_btn = "normal"
    /\ \E e \in YearsEntries :
        /\ ~e.num
        /\ years_var' = e
    /\ UNCHANGED <<env_vars, update_btn, progress, status_label, tle_epoch, last_results,
                   calc_vars, pc, years, returned, pure_vars>>

\* years <= 0 or years > 10
StartPredictionOutOfRange ==
    /\ update_btn = "normal"
    /\ \E e \in YearsEntries :
        /\ e.num
        /\ e.secs <= 0 \/ e.secs > MaxYears * SecondsPerYear
        /\ years_var' = e
    /\ UNCHANGED <<env_vars, update_btn, progress, status_label, tle_epoch, last_results,
                   calc_vars, pc, years, returned, pure_vars>>

\* the button is disabled, the progress bar started and the worker started;
\* a run is launched only while the clock has a later reading left for it
start_prediction ==
    /\ update_btn = "normal"
    /\ \E n \in NowChoices : Later(n, clock)
    /\ \E e \in YearsEntries :
        /\ e.num
        /\ ~(e.secs <= 0 \/ e.secs > MaxYears * SecondsPerYear)
        /\ years_var' = e
        /\ years' = e.secs
    /\ update_btn' = "disabled"
    /\ progress' = "running"
    /\ pc' = "fetch"
    /\ UNCHANGED <<env_vars, status_label, tle_epoch, last_results, calc_vars, returned, pure_vars>>

-----------------------------------------------------------------------------
(* run_prediction: the worker thread *)

\* fetch_tle returns True
FetchTleOk ==
    /\ pc = "fetch"
    /\ tle_epoch' = Some(src_epoch)
    /\ status_label' = "calculating"
    /\ pc' = "calc"
    /\ UNCHANGED <<env_vars, years_var, update_btn, progress, last_results, calc_vars,
                   years, returned, pure_vars>>

\* fetch_tle returns False: a short response, or an exception it caught
FetchTleFailed ==
    /\ pc = "fetch"
    /\ progress' = "stopped"
    /\ update_btn' = "normal"
    /\ status_label' = "fetch_failed"
    /\ pc' = "idle"
    /\ UNCHANGED <<env_vars, years_var, tle_epoch, last_results, calc_vars,
                   years, returned, pure_vars>>

\* the test of the coarse scan: dist_km <= self.max_distance_km
InRange(dist_km) == dist_km <= max_distance_km

\* in_window starts True, the window starting with the horizon
CalcStart_open ==
    /\ pc = "calc"
    /\ \E n \in NowChoices :
        /\ Later(n, clock)
        /\ clock' = Some(n)
        /\ start_time' = n
        /\ end_time' = n + years
        /\ current' = n
        /\ window_start' = Some(n)
    /\ passes' = <<>>
    /\ in_window' = TRUE
    /\ windows' = <<>>
    /\ pc' = "scan"
    /\ UNCHANGED <<propagator, src_epoch, gui_vars, years, returned, pure_vars>>

\* calculate_passes up to the while loop: the horizon starts at ts.now()
CalcStart ==
    /\ pc = "calc"
    /\ \E n \in NowChoices :
        /\ Later(n, clock)
        /\ clock' = Some(n)
        /\ start_time' = n
        /\ end_time' = n + years
        /\ current' = n
    /\ passes' = <<>>
    /\ window_start' = None
    /\ in_window' = FALSE
    /\ windows' = <<>>
    /\ pc' = "scan"
    /\ UNCHANGED <<propagator, src_epoch, gui_vars, years, returned, pure_vars>>

\* window_start is set at every in-range sample, not only at the first
ScanInRange_restart ==
    /\ pc = "scan"
    /\ current < end_time
    /\ ~Fails(propagator, current)
    /\ InRange(Dist(propagator, current))
    /\ in_window' = TRUE
    /\ window_start' = Some(current)
    /\ current' = current + CoarseStep
    /\ UNCHANGED <<env_vars, gui_vars, start_time, end_time, passes, windows,
                   pc, years, returned, pure_vars>>

\* one iteration of the while loop: dist_km <= self.max_distance_km
ScanInRange ==
    /\ pc = "scan"
    /\ current < end_time
    /\ ~Fails(propagator, current)
    /\ InRange(Dist(propagator, current))
    /\ in_window' = TRUE
    /\ window_start' = IF in_window THEN window_start ELSE Some(current)
    /\ current' = current + CoarseStep
    /\ UNCHANGED <<env_vars, gui_vars, start_time, end_time, passes, windows,
                   pc, years, returned, pure_vars>>

\* one iteration of the while loop: out of range and not in a window
ScanOutside ==
    /\ pc = "scan"
    /\ current < end_time
    /\ ~Fails(propagator, current)
    /\ ~InRange(Dist(propagator, current))
    /\ ~in_window
    /\ current' = current + CoarseStep
    /\ UNCHANGED <<env_vars, gui_vars, start_time, end_time, in_window, window_start,
                   passes, windows, pc, years, returned, pure_vars>>

\* one iteration of the while loop: the window just ended and is refined
ScanCloseWindow ==
    /\ pc = "scan"
    /\ current < end_time
    /\ ~Fails(propagator, current)
    /\ ~InRange(Dist(propagator, current))
    /\ in_window
    /\ LET precise_pass == refine_pass_data(propagator, tle_epoch, window_start[1], current)
       IN  /\ ~precise_pass.raised
           /\ passes' = IF precise_pass.value # None
                        THEN Append(passes, precise_pass.value[1])
                        ELSE passes
    /\ windows' = Append(windows, <<window_start[1], current>>)
    /\ in_window' = FALSE
    /\ current' = current + CoarseStep
    /\ UNCHANGED <<env_vars, gui_vars, start_time, end_time, window_start,
                   pc, years, returned, pure_vars>>

\* the propagator raises in the coarse sample or in the fine scan: nothing in
\* run_prediction catches it, so the worker thread ends there
ScanPropagatorFailure ==
    /\ pc = "scan"
    /\ current < end_time
    /\ \/ Fails(propagator, current)
       \/ /\ ~InRange(Dist(propagator, current))
          /\ in_window
          /\ refine_pass_data(propagator, tle_epoch, window_start[1], current).raised
    /\ pc' = "crashed"
    /\ UNCHANGED <<env_vars, gui_vars, calc_vars, years, returned, pure_vars>>

\* a window still open at the end of the horizon is refined, truncated there
ScanReturn_flush ==
    /\ pc = "scan"
    /\ ~(current < end_time)
    /\ LET precise_pass == refine_pass_data(propagator, tle_epoch, window_start[1], current)
           flushed == IF in_window /\ precise_pass.value # None
                      THEN Append(passes, precise_pass.value[1])
                      ELSE passes
       IN  /\ passes' = flushed
           /\ returned' = Append(returned, [start |-> start_time, years |-> years, passes |-> flushed])
    /\ windows' = IF in_window THEN Append(windows, <<window_start[1], current>>) ELSE windows
    /\ status_label' = "formatting"
    /\ pc' = "format"
    /\ UNCHANGED <<env_vars, years_var, update_btn, progress, tle_epoch, last_results,
                   start_time, end_time, current, in_window, window_start, years, pure_vars>>

\* the while loop ends and calculate_passes returns passes
ScanReturn ==
    /\ pc = "scan"
    /\ ~(current < end_time)
    /\ returned' = Append(returned, [start |-> start_time, years |-> years, passes |-> passes])
    /\ status_label' = "formatting"
    /\ pc' = "format"
    /\ UNCHANGED <<env_vars, years_var, update_btn, progress, tle_epoch, last_results,
                   calc_vars, years, pure_vars>>

\* format_results and the rest of run_prediction
FinishPrediction ==
    /\ pc = "format"
    /\ last_results' = Some(format_results(passes, tle_epoch))
    /\ progress' = "stopped"
    /\ update_btn' = "normal"
    /\ status_label' = "complete"
    /\ pc' = "idle"
    /\ UNCHANGED <<env_vars, years_var, tle_epoch, calc_vars, years, returned, pure_vars>>

\* format_results (or the display of its text) raises: the worker thread ends
FormatResultsRaises ==
    /\ pc = "format"
    /\ pc' = "crashed"
    /\ UNCHANGED <<env_vars, gui_vars, calc_vars, years, returned, pure_vars>>

Next ==
    \/ StartPredictionNotNumber
    \/ StartPredictionOutOfRange
    \/ start_prediction
    \/ FetchTleOk
    \/ FetchTleFailed
    \/ CalcStart
    \/ ScanInRange
    \/ ScanOutside
    \/ ScanCloseWindow
    \/ ScanPropagatorFailure
    \/ ScanReturn
    \/ FinishPrediction
    \/ FormatResultsRaises

Spec == Init /\ [][Next]_vars

-----------------------------------------------------------------------------
(* calculate_passes and refine_pass_data called on their own, on an object *)
(* whose TLE is loaded                                                     *)

\* calculate_passes has just returned: passes and windows are those of the call
CalcReturned == pc = "format"

\* the windows of the direct refine_pass_data calls
RefineStarts == {0, 240, 480, 600}

RefineLengths == {60, 180}

\* the state in which run_prediction calls calculate_passes
InitRefine ==
    /\ propagator \in Propagators
    /\ src_epoch \in Epochs
    /\ clock = None
    /\ years_var = [num |-> TRUE, secs |-> Horizon]
    /\ update_btn = "disabled"
    /\ progress = "running"
    /\ status_label = "calculating"
    /\ tle_epoch = Some(src_epoch)
    /\ last_results = None
    /\ pc = "calc"
    /\ years = Horizon
    /\ start_time = 0
    /\ end_time = 0
    /\ current = 0
    /\ in_window = FALSE
    /\ window_start = None
    /\ passes = <<>>
    /\ windows = <<>>
    /\ returned = <<>>
    /\ InitPure

\* refine_pass_data(satellite, location, a, a + len, ts), called once
\* calculate_passes has returned
RefineCall ==
    /\ CalcReturned
    /\ refined = None
    /\ \E a \in RefineStarts, len \in RefineLengths :
        LET r == refine_pass_data(propagator, tle_epoch, a, a + len)
        IN  refined' = Some([start |-> a, end |-> a + len, raised |-> r.raised, value |-> r.value])
    /\ UNCHANGED <<env_vars, gui_vars, calc_vars, pc, years, returned, acc_d, acc_prev, acc_cur>>

NextRefine ==
    \/ CalcStart
    \/ ScanInRange
    \/ ScanOutside
    \/ ScanCloseWindow
    \/ ScanPropagatorFailure
    \/ ScanReturn
    \/ RefineCall

SpecRefine == InitRefine /\ [][NextRefine]_vars

-----------------------------------------------------------------------------
(* estimate_accuracy called on its own, over 0, 1/AccDen, 2/AccDen, ...    *)
(* days                                                                    *)

InitAcc ==
    /\ propagator = [dips |-> {}, fail_at |-> None]
    /\ src_epoch \in Epochs
    /\ clock = None
    /\ InitObject
    /\ InitPure

EstimateNext ==
    /\ LET d == IF acc_d = None THEN 0 ELSE acc_d[1] + 1
       IN  /\ d <= MaxDays * AccDen
           /\ acc_d' = Some(d)
           /\ acc_cur' = Some(estimate_accuracy(d, AccDen))
    /\ acc_prev' = acc_cur
    /\ UNCHANGED <<env_vars, gui_vars, calc_vars, pc, years, returned, refined>>

SpecAcc == InitAcc /\ [][EstimateNext]_vars

-----------------------------------------------------------------------------
(* Definitions used to state the properties *)

\* the coarse ticks of the horizon [s, e)
Ticks(s, e) == {s + CoarseStep * k : k \in 0..((e - s - 1) \div CoarseStep)}

\* the maximal runs of in-range coarse ticks that an out-of-range tick of the
\* horizon follows, each as <<first tick of the run, first tick after it>>
ExpectedWindows(p, s, e) ==
    LET T == Ticks(s, e)
        R == {t \in T : Dist(p, t) <= max_distance_km}
        Closes(a) == {t \in T \ R : t > a}
        Opens == {a \in R : (a - CoarseStep) \notin R /\ Closes(a) # {}}
    IN  {<<a, MinOf(Closes(a))>> : a \in Opens}

\* the instants of the padded fine grid of the window [a, b)
GridInstants(a, b) == (a - FinePad)..(b + FinePad - 1)

\* half the time that dip d spends in range, rounded down
HalfWidth(d) == (max_distance_km - d.base) \div d.slope

\* a dip that the coarse scan cannot miss
WideDip(d) == d.base <= max_distance_km /\ 2 * HalfWidth(d) >= CoarseStep

\* two dips below the threshold, well separated and inside the horizon [s, e)
TwoSeparatedDips(p, s, e) ==
    /\ p.fail_at = None
    /\ \E d1, d2 \in p.dips :
        /\ p.dips = {d1, d2}
        /\ WideDip(d1) /\ WideDip(d2)
        /\ s <= d1.t0 - HalfWidth(d1)
        /\ d1.t0 + HalfWidth(d1) + 3 * CoarseStep <= d2.t0 - HalfWidth(d2)
        /\ d2.t0 + HalfWidth(d2) + CoarseStep < e

\* the propagator of distance 500 + 5 * |t - t0|, t0 away from the ends of [s, e)
SingleVee(p, s, e) ==
    /\ p.fail_at = None
    /\ \E d \in p.dips :
        /\ p.dips = {d}
        /\ d.base = 500 /\ d.slope = 5
        /\ s + 100 + CoarseStep < d.t0
        /\ d.t0 + 100 + CoarseStep < e

VeeTime(p) == (CHOOSE d \in p.dips : TRUE).t0

-----------------------------------------------------------------------------
(* C2: the list that calculate_passes builds is strictly ordered by        *)
(* closest_time ascending: for any two passes, the earlier one in the list *)
(* has the strictly smaller closest_time.                                  *)
C2_StrictlyOrdered ==
    \A i, j \in DOMAIN passes :
        i < j => passes[i].closest_time < passes[j].closest_time

C4_SingleVee ==
    (CalcReturned /\ SingleVee(propagator, start_time, end_time)) =>
        /\ Len(passes) = 1
        /\ Abs(passes[1].closest_time - VeeTime(propagator)) <= 1
        /\ Abs(passes[1].min_distance - 500) <= 5
        /\ Abs(passes[1].duration[1] - 200) <= 1
        /\ passes[1].duration[2] = 60

C4_Witness ==
    /\ CalcReturned
    /\ SingleVee(propagator, start_time, end_time)
    /\ Len(passes) = 1
    /\ passes[1].closest_time = VeeTime(propagator)

(* C5: the in-range test is distance <= max_distance_km in both phases:    *)
(* during the coarse scan the window is open exactly when the last sample  *)
(* was at or under the threshold; every refined window whose least         *)
(* distance over the fine grid is at or under the threshold gives a pass   *)
(* with that least distance, whose duration counts every fine sample at    *)
(* or under the threshold.                                                 *)
C5_InclusiveThreshold ==
    /\ (pc = "scan" /\ current > start_time) =>
          (in_window <=> Dist(propagator, current - CoarseStep) <= max_distance_km)
    /\ CalcReturned =>
          \A i \in DOMAIN windows :
              LET G == GridInstants(windows[i][1], windows[i][2])
                  least == MinOf({Dist(propagator, t) : t \in G})
              IN  least <= max_distance_km =>
                      \E k \in DOMAIN passes :
                          /\ passes[k].start = windows[i][1]
                          /\ passes[k].end = windows[i][2]
                          /\ passes[k].min_distance = least
                          /\ passes[k].duration[1] =
                                Cardinality({t \in G : Dist(propagator, t) <= max_distance_km})

C5_Witness ==
    /\ CalcReturned
    /\ \E k \in DOMAIN passes :
        /\ passes[k].min_distance = max_distance_km
        /\ passes[k].duration[1] = 1
        /\ Dist(propagator, passes[k].start) = max_distance_km
\* the distance stays at or above the threshold over the horizon [s, e)
NeverBelow(p, s, e) == \A t \in s..(e - 1) : Dist(p, t) >= max_distance_km

\* the distance stays strictly above the threshold over the horizon [s, e)
AlwaysAbove(p, s, e) == \A t \in s..(e - 1) : Dist(p, t) > max_distance_km

\* the worker thread ended in calculate_passes with an exception
CalcRaised == pc = "crashed" /\ status_label = "calculating"

(* C6 as stated: when the distance never drops below max_distance_km at    *)
(* any instant of the horizon, calculate_passes returns an empty list      *)
(* without invoking refinement and without raising.                        *)
C6_NeverBelowEmpty ==
    /\ (CalcReturned /\ propagator.fail_at = None) =>
          (NeverBelow(propagator, start_time, end_time) => passes = <<>> /\ windows = <<>>)
    /\ (CalcRaised /\ propagator.fail_at = None) =>
          ~NeverBelow(propagator, start_time, end_time)

(* C6 as amended: when the distance stays strictly above max_distance_km   *)
(* at every instant of the horizon, calculate_passes returns an empty list *)
(* without invoking refinement and without raising, and the run completes  *)
(* with "Total Passes Found: 0", which no failed run shows.                *)
C6_AlwaysAboveEmpty ==
    /\ (CalcReturned /\ propagator.fail_at = None) =>
          (AlwaysAbove(propagator, start_time, end_time) => passes = <<>> /\ windows = <<>>)
    /\ (CalcRaised /\ propagator.fail_at = None) =>
          ~AlwaysAbove(propagator, start_time, end_time)
    /\ (pc = "idle" /\ status_label = "complete" /\ propagator.fail_at = None) =>
          (AlwaysAbove(propagator, start_time, end_time) => last_results[1].total = 0)
    /\ pc = "crashed" => status_label # "complete"

C6_Witness ==
    /\ pc = "idle"
    /\ status_label = "complete"
    /\ propagator.fail_at = None
    /\ AlwaysAbove(propagator, start_time, end_time)
    /\ last_results[1].total = 0

(* C7: two calculate_passes calls with the same elements, location,        *)
(* horizon length and configuration return the same pass list, whenever    *)
(* they are made.                                                          *)
C7_SameInputsSameResult ==
    \A i, j \in DOMAIN returned :
        returned[i].years = returned[j].years => returned[i].passes = returned[j].passes

(* C9: a window still open when the coarse scan reaches the end of the     *)
(* horizon is dropped: it is not handed to refine_pass_data and gives no   *)
(* pass, so that every returned pass comes from a window closed by an      *)
(* out-of-range coarse sample strictly before the end of the horizon.      *)
C9_TrailingWindowDropped ==
    CalcReturned =>
        /\ \A i \in DOMAIN windows :
            /\ windows[i][2] < end_time
            /\ Dist(propagator, windows[i][2]) > max_distance_km
            /\ in_window => windows[i][1] # window_start[1]
        /\ \A k \in DOMAIN passes :
            /\ \E i \in DOMAIN windows : <<passes[k].start, passes[k].end>> = windows[i]
            /\ in_window => passes[k].start # window_start[1]
        /\ returned[Len(returned)].passes = passes

C9_Witness ==
    /\ CalcReturned
    /\ in_window
    /\ window_start[1] > start_time
    /\ passes = <<>>

(* C10: once the worker thread of a prediction run has ended, normally or  *)
(* with an exception, the update button is enabled again and the progress  *)
(* bar is stopped.                                                         *)
C10_ButtonRestored ==
    pc \in {"idle", "crashed"} => (update_btn = "normal" /\ progress = "stopped")

-----------------------------------------------------------------------------
\* the least distance over the padded fine grid of the window [a, b)
FineMin(p, a, b) == MinOf({Dist(p, t) : t \in GridInstants(a, b)})

(* C1: every pass that calculate_passes appends has min_distance <=        *)
(* max_distance_km, and refine_pass_data returns None exactly when the     *)
(* least distance over the padded 1-second grid exceeds max_distance_km.   *)
C1_MinDistanceWithinThreshold ==
    /\ \A k \in DOMAIN passes : passes[k].min_distance <= max_distance_km
    /\ (refined # None /\ ~refined[1].raised) =>
          LET least == FineMin(propagator, refined[1].start, refined[1].end)
          IN  /\ (refined[1].value = None) <=> (least > max_distance_km)
              /\ refined[1].value # None =>
                    /\ refined[1].value[1].min_distance = least
                    /\ refined[1].value[1].min_distance <= max_distance_km

C1_Witness ==
    /\ passes # <<>>
    /\ refined # None
    /\ ~refined[1].raised
    /\ refined[1].value = None
    /\ FineMin(propagator, refined[1].start, refined[1].end) < FarKm

-----------------------------------------------------------------------------
\* the five breakpoints of estimate_accuracy, in days, and the error there
Breakpoints == <<3, 7, 30, 90, 180>>

BreakErrors == <<5, 20, 100, 500, 1000>>

\* the tier of d = num / den days, by the intervals of the documentation
LabelOf(num, den) ==
    IF num >= 0 /\ num <= 3 * den THEN "EXCELLENT"
    ELSE IF num > 3 * den /\ num <= 7 * den THEN "VERY GOOD"
    ELSE IF num > 7 * den /\ num <= 30 * den THEN "GOOD"
    ELSE IF num > 30 * den /\ num <= 90 * den THEN "MODERATE"
    ELSE IF num > 90 * den /\ num <= 180 * den THEN "POOR"
    ELSE "VERY POOR"

(* C8: estimate_accuracy is continuous at the breakpoints 3, 7, 30, 90 and *)
(* 180 days, where the formulas of the two adjacent tiers both give 5, 20, *)
(* 100, 500 and 1000 km; its error is non-decreasing in d for d >= 0; and  *)
(* the label is EXCELLENT on [0,3], VERY GOOD on (3,7], GOOD on (7,30],    *)
(* MODERATE on (30,90], POOR on (90,180] and VERY POOR above 180.          *)
C8_ContinuousMonotone ==
    acc_cur # None =>
        LET d == acc_d[1]
            e == acc_cur[1].error
        IN  /\ acc_prev # None => RatLeq(acc_prev[1].error, e)
            /\ \A k \in 1..5 :
                  d = Breakpoints[k] * AccDen =>
                      /\ RatEq(e, <<BreakErrors[k], 1>>)
                      /\ RatEq(TierError(k, d, AccDen), <<BreakErrors[k], 1>>)
                      /\ RatEq(TierError(k + 1, d, AccDen), <<BreakErrors[k], 1>>)
            /\ acc_cur[1].reliability = LabelOf(d, AccDen)

C8_Witness ==
    /\ acc_d = Some(180 * AccDen)
    /\ acc_prev # None
    /\ acc_cur[1].reliability = "POOR"
    /\ RatEq(acc_cur[1].error, <<1000, 1>>)

=============================================================================
